---- MODULE Spec2Model ----
(***************************************************************************)
(* A model of praisonaiagents/main.py: the content sanitizer, the display  *)
(* functions with the callback registry and the error log, the fence       *)
(* stripper, and the TaskOutput envelope with its three derived views.     *)
(*                                                                         *)
(* A Python str is a sequence of characters; a character is a one-letter   *)
(* string, except the backtick, which is the token Backtick.  A Python     *)
(* dict is the sequence of its (key, value) pairs in insertion order, with *)
(* distinct keys.  A value that may be None (Optional[T], a variable not   *)
(* yet assigned) is None or Some(v), and Get(Some(v)) = v.                 *)
(***************************************************************************)
EXTENDS Integers, Sequences, FiniteSets, TLC

VARIABLES
    display_callbacks,  \* main.py:29  the callback registry, a dict kind -> handler
    error_logs,         \* main.py:26  the error log, a list of str
    call,               \* the call that produced this state: its name and arguments
    invoked,            \* the callback invocations that call made, in order
    printed,            \* what that call printed on its console, in order
    returned,           \* what that call returned
    last_registered,    \* per kind, the handler of the latest register call (history)
    n_registered,       \* the number of register calls made (history)
    task_output,        \* the TaskOutput under observation, None before construction
    view,               \* the view of it last taken: its name and its result
    text,               \* the fence stripper's current string
    earlier,            \* the strings it was obtained from, oldest first
    content,            \* the sanitizer's input string
    max_length,         \* the sanitizer's max_length
    sanitized           \* the sanitizer's result, None before the call

displayVars == <<display_callbacks, error_logs, call, invoked, printed, returned,
                 last_registered, n_registered>>
envelopeVars == <<task_output, view>>
fenceVars == <<text, earlier>>
sanitizerVars == <<content, max_length, sanitized>>
vars == <<displayVars, envelopeVars, fenceVars, sanitizerVars>>

None == <<>>
Some(v) == <<v>>
Get(o) == o[1]

\* ------------------------------------------------------------------ bounds

\* the number of segments an input string of the sanitizer is made of
MaxContentSegs == 4
\* the largest max_length the sanitizer is called with
MaxMaxLength == 7
\* the number of segments an input string of the fence stripper is made of
MaxFenceSegs == 3
\* the number of entries the error log grows to
MaxErrorLogs == 2
\* the number of register_display_callback calls
MaxRegistrations == 2

\* ------------------------------------------------------------- Python str

Backtick == "BACKTICK"
Newline == "\n"

\* the characters str.strip() removes
Whitespace == {" ", Newline, "\t"}

SetMin(S) == CHOOSE i \in S : \A j \in S : i <= j
SetMax(S) == CHOOSE i \in S : \A j \in S : j <= i

\* str.strip()
Strip(s) ==
    LET kept == {i \in 1..Len(s) : s[i] \notin Whitespace}
    IN  IF kept = {} THEN <<>> ELSE SubSeq(s, SetMin(kept), SetMax(kept))

\* p in s
Contains(s, p) == \E i \in 0..(Len(s) - Len(p)) : SubSeq(s, i + 1, i + Len(p)) = p

\* s.startswith(p), s.endswith(p)
StartsWith(s, p) == Len(p) <= Len(s) /\ SubSeq(s, 1, Len(p)) = p
EndsWith(s, p) == Len(p) <= Len(s) /\ SubSeq(s, Len(s) - Len(p) + 1, Len(s)) = p

\* s.split(c), c one character
RECURSIVE Split(_, _)
Split(s, c) ==
    LET at == {i \in 1..Len(s) : s[i] = c}
    IN  IF at = {} THEN <<s>>
        ELSE <<SubSeq(s, 1, SetMin(at) - 1)>>
                 \o Split(SubSeq(s, SetMin(at) + 1, Len(s)), c)

\* c.join(parts)
RECURSIVE Join(_, _)
Join(parts, c) ==
    IF Len(parts) = 0 THEN <<>>
    ELSE IF Len(parts) = 1 THEN parts[1]
    ELSE parts[1] \o <<c>> \o Join(Tail(parts), c)

\* the concatenation of a sequence of strings
RECURSIVE Concat(_)
Concat(parts) == IF parts = <<>> THEN <<>> ELSE Head(parts) \o Concat(Tail(parts))

\* the strings made of at most n segments of S
SegStrings(S, n) == {Concat(p) : p \in UNION {[1..k -> S] : k \in 0..n}}

\* ------------------------------------------------------------- sanitizer

Base64 == <<"b", "a", "s", "e", "6", "4">>
Ellipsis == <<".", ".", ".">>

\* max_length's default
DefaultMaxLength == 20000

\* a faulty variant: truncates before it filters the base64 lines
_clean_display_content_truncating_first(s, m) ==
    IF s = <<>> \/ Strip(s) = <<>> THEN <<>>
    ELSE LET truncated == IF Len(s) > m THEN SubSeq(s, 1, m) \o Ellipsis ELSE s
             NoBase64(line) == ~Contains(line, Base64)
             filtered == IF Contains(truncated, Base64)
                         THEN Join(SelectSeq(Split(truncated, Newline), NoBase64), Newline)
                         ELSE truncated
         IN  Strip(filtered)

_clean_display_content(s, m) ==
    IF s = <<>> \/ Strip(s) = <<>> THEN <<>>
    ELSE LET NoBase64(line) == ~Contains(line, Base64)
             filtered == IF Contains(s, Base64)
                         THEN Join(SelectSeq(Split(s, Newline), NoBase64), Newline)
                         ELSE s
             truncated == IF Len(filtered) > m
                          THEN SubSeq(filtered, 1, m) \o Ellipsis
                          ELSE filtered
         IN  Strip(truncated)

\* ------------------------------------------------------------ module load

\* error_logs = [] (main.py:26), display_callbacks = {} (main.py:29); nothing
\* called, no TaskOutput constructed
Init ==
    /\ display_callbacks = <<>> /\ error_logs = <<>>
    /\ call = None /\ invoked = <<>> /\ printed = <<>> /\ returned = None
    /\ last_registered = <<>> /\ n_registered = 0
    /\ task_output = None /\ view = None
    /\ text = <<>> /\ earlier = <<>>
    /\ content = <<>> /\ max_length = DefaultMaxLength /\ sanitized = None

\* ------------------------------------- _clean_display_content on its own

ContentSegs == {Base64, <<"b", "a", "s", "e", "6">>, <<Newline>>, <<" ">>, <<"x">>}

\* the module as loaded (main.py:26, main.py:29), and an input of the sanitizer
SanitizerInit ==
    /\ display_callbacks = <<>> /\ error_logs = <<>>
    /\ call = None /\ invoked = <<>> /\ printed = <<>> /\ returned = None
    /\ last_registered = <<>> /\ n_registered = 0
    /\ task_output = None /\ view = None
    /\ text = <<>> /\ earlier = <<>>
    /\ content \in SegStrings(ContentSegs, MaxContentSegs)
    /\ max_length \in 0..MaxMaxLength
    /\ sanitized = None

\* one call _clean_display_content(content, max_length)
Sanitize ==
    /\ sanitized = None
    /\ sanitized' = Some(_clean_display_content(content, max_length))
    /\ UNCHANGED <<content, max_length, displayVars, envelopeVars, fenceVars>>

SpecSanitizer == SanitizerInit /\ [][Sanitize]_vars

\* The reference result, character by character.  Line k of s (k = 0, 1, ...)
\* is what lies between its k-th and its (k+1)-th newline.
NewlinesBefore(s, i) == Cardinality({j \in 1..(i - 1) : s[j] = Newline})
LastLine(s) == NewlinesBefore(s, Len(s) + 1)
MarkedLine(s, k) ==
    \E i \in 1..(Len(s) - 5) :
        SubSeq(s, i, i + 5) = Base64 /\ NewlinesBefore(s, i) = k
\* a character stays when its line has no marker; the newline that ends line k
\* stays when moreover some later line stays
StaysAt(s, i) ==
    LET k == NewlinesBefore(s, i)
    IN  /\ ~MarkedLine(s, k)
        /\ s[i] = Newline => \E j \in (k + 1)..LastLine(s) : ~MarkedLine(s, j)
WithoutMarkedLines(s) ==
    LET Stays(p) == StaysAt(s, p[1])
        left == SelectSeq([i \in 1..Len(s) |-> <<i, s[i]>>], Stays)
    IN  [i \in 1..Len(left) |-> left[i][2]]
FirstChars(s, m) == [i \in 1..m |-> s[i]]
RefSanitized(s, m) ==
    IF \A i \in 1..Len(s) : s[i] \in Whitespace THEN <<>>
    ELSE LET f == WithoutMarkedLines(s)
         IN  Strip(IF Len(f) > m THEN FirstChars(f, m) \o Ellipsis ELSE f)

\* C10: the result of _clean_display_content(s, m) is the reference result:
\* empty for an empty or all-whitespace s; otherwise s without its lines that
\* contain the base64 marker, cut to its first m characters with "..." appended
\* when longer than m, then stripped.  With no marker in s, it is s.strip() when
\* len(s) <= m, and (s[:m] + "...").strip() when len(s) > m and s is not all
\* whitespace.
C10_SanitizedIsReference ==
    sanitized # None =>
        /\ Get(sanitized) = RefSanitized(content, max_length)
        /\ ~Contains(content, Base64) /\ Len(content) <= max_length
               => Get(sanitized) = Strip(content)
        /\ ~Contains(content, Base64) /\ Len(content) > max_length
             /\ Strip(content) # <<>>
               => Get(sanitized) = Strip(SubSeq(content, 1, max_length) \o Ellipsis)

\* C10 as stated: the same, the truncation case claimed of every s without a
\* marker that is longer than m, the all-whitespace ones included.
C10_AsStated ==
    sanitized # None =>
        /\ Get(sanitized) = RefSanitized(content, max_length)
        /\ ~Contains(content, Base64) /\ Len(content) <= max_length
               => Get(sanitized) = Strip(content)
        /\ ~Contains(content, Base64) /\ Len(content) > max_length
               => Get(sanitized) = Strip(SubSeq(content, 1, max_length) \o Ellipsis)

\* a marked line was dropped, another line kept, and the rest truncated
C10_Witness ==
    /\ sanitized # None
    /\ Contains(content, Base64)
    /\ Len(WithoutMarkedLines(content)) > max_length
    /\ max_length > 0
    /\ Get(sanitized) = <<"x">> \o Ellipsis

\* ------------------------------------------ clean_triple_backticks on its own

Fence == <<Backtick, Backtick, Backtick>>
JsonFence == Fence \o <<"j", "s", "o", "n">>

\* s[n:]
DropFirst(s, n) == SubSeq(s, n + 1, Len(s))
\* s[:-n], for n <= len(s)
DropLast(s, n) == SubSeq(s, 1, Len(s) - n)

\* a faulty variant: does not strip what is left once the closing fence is cut
clean_triple_backticks_closer_unstripped(s) ==
    LET c0 == Strip(s)
        c1 == IF StartsWith(c0, JsonFence) THEN Strip(DropFirst(c0, Len(JsonFence))) ELSE c0
        c2 == IF StartsWith(c1, Fence) THEN Strip(DropFirst(c1, Len(Fence))) ELSE c1
    IN  IF EndsWith(c2, Fence) THEN DropLast(c2, 3) ELSE c2

clean_triple_backticks(s) ==
    LET c0 == Strip(s)
        c1 == IF StartsWith(c0, JsonFence) THEN Strip(DropFirst(c0, Len(JsonFence))) ELSE c0
        c2 == IF StartsWith(c1, Fence) THEN Strip(DropFirst(c1, Len(Fence))) ELSE c1
    IN  IF EndsWith(c2, Fence) THEN Strip(DropLast(c2, 3)) ELSE c2

FenceSegs == {Fence, JsonFence, <<Backtick>>, <<" ">>, <<Newline>>, <<"x">>}

\* the module as loaded, and an input of the fence stripper
FenceInit ==
    /\ display_callbacks = <<>> /\ error_logs = <<>>
    /\ call = None /\ invoked = <<>> /\ printed = <<>> /\ returned = None
    /\ last_registered = <<>> /\ n_registered = 0
    /\ task_output = None /\ view = None
    /\ content = <<>> /\ max_length = DefaultMaxLength /\ sanitized = None
    /\ text \in SegStrings(FenceSegs, MaxFenceSegs)
    /\ earlier = <<>>

\* text = clean_triple_backticks(text), at most twice
StripFences ==
    /\ Len(earlier) < 2
    /\ text' = clean_triple_backticks(text)
    /\ earlier' = Append(earlier, text)
    /\ UNCHANGED <<displayVars, envelopeVars, sanitizerVars>>

SpecFence == FenceInit /\ [][StripFences]_vars

\* C9 as stated: stripping twice equals stripping once, for every input.
C9_Idempotent == Len(earlier) = 2 => text = earlier[2]

\* C9: stripping twice equals stripping once exactly when the first result
\* neither begins nor ends with a fence; an input that holds no fence at all
\* is only stripped of its surrounding whitespace, and so is such an input.
C9_IdempotentUnlessFenceLeft ==
    /\ Len(earlier) = 2 =>
           (text = earlier[2]
                <=> ~StartsWith(earlier[2], Fence) /\ ~EndsWith(earlier[2], Fence))
    /\ Len(earlier) >= 1 /\ ~Contains(earlier[1], Fence) =>
           /\ Len(earlier) = 1 => text = Strip(earlier[1])
           /\ Len(earlier) = 2 => text = earlier[2]

\* a json fence and its closer were stripped, and the second call changed nothing
C9_Witness ==
    /\ Len(earlier) = 2
    /\ earlier[1] = JsonFence \o <<"x">> \o Fence
    /\ earlier[2] = <<"x">>
    /\ text = <<"x">>

\* --------------------------------------------------------------- Python dict

Keys(d) == {d[i][1] : i \in 1..Len(d)}

\* d after d[k] = v: an old key keeps its place, a new one goes last
SetItem(d, k, v) ==
    IF k \in Keys(d)
    THEN [i \in 1..Len(d) |-> IF d[i][1] = k THEN <<k, v>> ELSE d[i]]
    ELSE Append(d, <<k, v>>)

\* d after d.update(other)
RECURSIVE Update(_, _)
Update(d, other) ==
    IF other = <<>> THEN d
    ELSE Update(SetItem(d, Head(other)[1], Head(other)[2]), Tail(other))

\* '"k": v', the values being one-digit ints
DumpsItem(kv) == <<"\"", kv[1], "\"", ":", " ", ToString(kv[2])>>

RECURSIVE DumpsItems(_)
DumpsItems(d) ==
    IF Len(d) = 0 THEN <<>>
    ELSE IF Len(d) = 1 THEN DumpsItem(d[1])
    ELSE DumpsItem(d[1]) \o <<",", " ">> \o DumpsItems(Tail(d))

\* json.dumps(d)
Dumps(d) == <<"{">> \o DumpsItems(d) \o <<"}">>

\* bool(d), d an Optional[dict]
DictTruthy(d) == d # None /\ Get(d) # <<>>

\* ------------------------------------------------------- pydantic BaseModel

\* A BaseModel instance is the dict of its fields.  BaseModel defines neither
\* __bool__ nor __len__, so every instance is truthy, one with no field too:
\* bool(p), p an Optional[BaseModel]
ModelTruthy(p) == p # None

\* p.model_dump()
ModelDump(p) == p

RECURSIVE ReprArgs(_)
ReprArgs(d) ==
    IF Len(d) = 0 THEN <<>>
    ELSE IF Len(d) = 1 THEN <<d[1][1], "=", ToString(d[1][2])>>
    ELSE <<d[1][1], "=", ToString(d[1][2]), " ">> \o ReprArgs(Tail(d))

\* str(p): 'a=2 b=3'
ModelStr(p) == ReprArgs(p)

\* ---------------------------------------------------------------- TaskOutput

OutputFormats == {"RAW", "JSON", "Pydantic"}

\* a faulty variant: json() without the test of the format tag
json_any_format(t) ==
    IF DictTruthy(t.json_dict) THEN Some(Dumps(Get(t.json_dict))) ELSE None

\* TaskOutput.json, an Optional[str]
json(t) ==
    IF t.output_format = "JSON" /\ DictTruthy(t.json_dict)
    THEN Some(Dumps(Get(t.json_dict)))
    ELSE None

\* a faulty variant: merges json_dict second, so that json_dict wins a collision
to_dict_json_second(t) ==
    LET d1 == IF ModelTruthy(t.pydantic)
              THEN Update(<<>>, ModelDump(Get(t.pydantic))) ELSE <<>>
    IN  IF DictTruthy(t.json_dict) THEN Update(d1, Get(t.json_dict)) ELSE d1

\* TaskOutput.to_dict
to_dict(t) ==
    LET d1 == IF DictTruthy(t.json_dict) THEN Update(<<>>, Get(t.json_dict)) ELSE <<>>
    IN  IF ModelTruthy(t.pydantic) THEN Update(d1, ModelDump(Get(t.pydantic))) ELSE d1

\* a faulty variant: looks at json_dict before pydantic
__str__json_first(t) ==
    IF DictTruthy(t.json_dict) THEN Dumps(Get(t.json_dict))
    ELSE IF ModelTruthy(t.pydantic) THEN ModelStr(Get(t.pydantic))
    ELSE t.raw

\* TaskOutput.__str__
__str__(t) ==
    IF ModelTruthy(t.pydantic) THEN ModelStr(Get(t.pydantic))
    ELSE IF DictTruthy(t.json_dict) THEN Dumps(Get(t.json_dict))
    ELSE t.raw

\* what a caller passes for raw, pydantic, json_dict and output_format; None
\* for raw and "XML" for output_format are what validation rejects
RawArgs == {None, Some(<<>>), Some(<<"r">>)}
PydanticArgs == {None, Some(<<>>), Some(<< <<"a", 2>>, <<"b", 3>> >>)}
JsonDictArgs == {None, Some(<<>>), Some(<< <<"a", 1>> >>),
                 Some(<< <<"a", 1>>, <<"c", 4>> >>)}
OutputFormatArgs == OutputFormats \cup {"XML"}

\* the field declarations: raw is a required str, output_format one of three
Validates(raw, output_format) == raw # None /\ output_format \in OutputFormats

\* TaskOutput(description="d", raw=..., pydantic=..., json_dict=..., agent="a",
\* output_format=...): the object, or a ValidationError and no object
Construct ==
    /\ task_output = None
    /\ \E raw \in RawArgs, pydantic \in PydanticArgs, json_dict \in JsonDictArgs,
          output_format \in OutputFormatArgs :
          IF Validates(raw, output_format)
          THEN /\ task_output' = Some([description |-> <<"d">>, summary |-> None,
                                       raw |-> Get(raw), pydantic |-> pydantic,
                                       json_dict |-> json_dict, agent |-> <<"a">>,
                                       output_format |-> output_format])
               /\ view' = Some([name |-> "TaskOutput", result |-> None])
          ELSE /\ task_output' = task_output
               /\ view' = Some([name |-> "ValidationError", result |-> None])
    /\ UNCHANGED <<displayVars, fenceVars, sanitizerVars>>

CallJson ==
    /\ task_output # None
    /\ view' = Some([name |-> "json", result |-> json(Get(task_output))])
    /\ UNCHANGED <<task_output, displayVars, fenceVars, sanitizerVars>>

CallToDict ==
    /\ task_output # None
    /\ view' = Some([name |-> "to_dict", result |-> to_dict(Get(task_output))])
    /\ UNCHANGED <<task_output, displayVars, fenceVars, sanitizerVars>>

CallStr ==
    /\ task_output # None
    /\ view' = Some([name |-> "__str__", result |-> __str__(Get(task_output))])
    /\ UNCHANGED <<task_output, displayVars, fenceVars, sanitizerVars>>

EnvelopeNext == Construct \/ CallJson \/ CallToDict \/ CallStr

SpecEnvelope == Init /\ [][EnvelopeNext]_vars

Viewed(name) == view # None /\ Get(view).name = name
Result == Get(view).result
Envelope == Get(task_output)

\* C1 as stated: str() is the string form of the structured payload when one is
\* present, otherwise the serialization of json_dict when json_dict is present,
\* otherwise raw.
C1_StrPrecedence ==
    Viewed("__str__") =>
        Result = IF Envelope.pydantic # None THEN ModelStr(Get(Envelope.pydantic))
                 ELSE IF Envelope.json_dict # None THEN Dumps(Get(Envelope.json_dict))
                 ELSE Envelope.raw

\* C1: str() is the string form of the structured payload when one is present,
\* otherwise the serialization of json_dict when json_dict is present and not
\* empty, otherwise raw; the format tag plays no part.
C1_StrPrecedenceNonEmpty ==
    Viewed("__str__") =>
        Result = IF Envelope.pydantic # None THEN ModelStr(Get(Envelope.pydantic))
                 ELSE IF Envelope.json_dict \notin {None, Some(<<>>)}
                     THEN Dumps(Get(Envelope.json_dict))
                 ELSE Envelope.raw

\* str() fell back to json_dict although the tag is RAW
C1_Witness ==
    /\ Viewed("__str__")
    /\ Envelope.pydantic = None
    /\ Envelope.output_format = "RAW"
    /\ Envelope.json_dict = Some(<< <<"a", 1>> >>)
    /\ Result = <<"{", "\"", "a", "\"", ":", " ", "1", "}">>

\* the value of key k in dict d, and the keys of an Optional payload
ValueAt(d, k) == d[CHOOSE i \in 1..Len(d) : d[i][1] = k][2]
PayloadKeys(o) == IF o = None THEN {} ELSE Keys(Get(o))

\* C2: to_dict() is the union of json_dict and the structured payload's
\* fields, a key of both having the structured payload's value; with neither
\* payload present it is the empty dict.
C2_ToDictMerges ==
    Viewed("to_dict") =>
        LET j == Envelope.json_dict
            f == Envelope.pydantic
        IN  /\ Len(Result) = Cardinality(Keys(Result))
            /\ Keys(Result) = PayloadKeys(j) \cup PayloadKeys(f)
            /\ \A k \in Keys(Result) :
                   ValueAt(Result, k) = IF k \in PayloadKeys(f) THEN ValueAt(Get(f), k)
                                        ELSE ValueAt(Get(j), k)
            /\ j = None /\ f = None => Result = <<>>

\* the key of both payloads has the structured payload's value
C2_Witness ==
    /\ Viewed("to_dict")
    /\ Envelope.json_dict = Some(<< <<"a", 1>> >>)
    /\ Envelope.pydantic = Some(<< <<"a", 2>>, <<"b", 3>> >>)
    /\ Result = << <<"a", 2>>, <<"b", 3>> >>

\* C3: json() returns the serialized json_dict only when the format tag is
\* JSON, and None whenever the tag is not JSON, whatever json_dict holds.
C3_JsonOnlyWhenTagged ==
    Viewed("json") =>
        /\ Result # None =>
               /\ Envelope.output_format = "JSON"
               /\ Envelope.json_dict # None
               /\ Result = Some(Dumps(Get(Envelope.json_dict)))
        /\ Envelope.output_format # "JSON" => Result = None
        /\ Envelope.output_format = "JSON"
             /\ Envelope.json_dict \notin {None, Some(<<>>)}
               => Result # None

\* json() of a RAW-tagged envelope that holds a json_dict is None
C3_Witness ==
    /\ Viewed("json")
    /\ Envelope.output_format = "RAW"
    /\ Envelope.json_dict = Some(<< <<"a", 1>> >>)
    /\ Result = None

\* C4 as stated: every constructed TaskOutput has raw populated, json_dict
\* populated only under the JSON tag, and the structured payload populated
\* only under the structured tag.  (raw is a str in every constructed
\* TaskOutput, Validates seeing to it; the two payloads are what fails.)
C4_EnvelopeInvariant ==
    task_output # None =>
        /\ Envelope.json_dict # None => Envelope.output_format = "JSON"
        /\ Envelope.pydantic # None => Envelope.output_format = "Pydantic"

\* ------------------------------------ the registry and the display functions

Kinds == {"interaction", "self_reflection", "instruction", "tool_call", "error",
          "generating"}
Handlers == {"h1", "h2"}

\* a faulty variant: keeps the handler a kind already has
register_display_callback_keeping_first(callbacks, display_type, callback_fn) ==
    IF display_type \in DOMAIN callbacks THEN callbacks
    ELSE [k \in DOMAIN callbacks \cup {display_type} |->
             IF k = display_type THEN callback_fn ELSE callbacks[k]]

\* display_callbacks after display_callbacks[display_type] = callback_fn
register_display_callback(callbacks, display_type, callback_fn) ==
    [k \in DOMAIN callbacks \cup {display_type} |->
        IF k = display_type THEN callback_fn ELSE callbacks[k]]

\* "if kind in display_callbacks: display_callbacks[kind](**kwargs)": the
\* invocations made, none when no handler is registered under kind
Invoke(callbacks, kind, kwargs) ==
    IF kind \in DOMAIN callbacks
    THEN <<[handler |-> callbacks[kind], kwargs |-> kwargs]>>
    ELSE <<>>

\* What is printed or returned, a rich renderable: a Panel around a Text, a
\* Markdown or a plain str, or a Text on its own.  The literals of the source
\* (titles, styles) are TLA+ strings; what is computed from an argument is a
\* sequence of characters.
\* Panel.fit(Text(text, style=style), title=title, border_style=border_style)
TextPanel(msg, style, title, border_style) ==
    [panel |-> TRUE, body |-> "Text", text |-> msg, style |-> style,
     title |-> title, border_style |-> border_style]
\* Panel.fit(Markdown(text), title=title, border_style=border_style)
MarkdownPanel(msg, title, border_style) ==
    [panel |-> TRUE, body |-> "Markdown", text |-> msg, style |-> "",
     title |-> title, border_style |-> border_style]

\* "if not message or not message.strip()"
Blank(message) == message = <<>> \/ Strip(message) = <<>>

\* What a call does: the callback invocations it makes, what it prints, the
\* error log it leaves and what it returns.
Effect(i, p, logs, r) == [invoked |-> i, printed |-> p, error_logs |-> logs, returned |-> r]

\* display_self_reflection, display_instruction and display_tool_call, which
\* differ in the kind, the title and the colours only
DisplayMessage(callbacks, logs, message, kind, style, title, border_style) ==
    IF Blank(message) THEN Effect(<<>>, <<>>, logs, None)
    ELSE LET msg == _clean_display_content(message, DefaultMaxLength)
         IN  Effect(Invoke(callbacks, kind, [message |-> msg]),
                    <<TextPanel(msg, style, title, border_style)>>, logs, None)

display_self_reflection(callbacks, logs, message) ==
    DisplayMessage(callbacks, logs, message, "self_reflection", "bold yellow",
                   "Self Reflection", "magenta")

display_instruction(callbacks, logs, message) ==
    DisplayMessage(callbacks, logs, message, "instruction", "bold blue",
                   "Instruction", "cyan")

display_tool_call(callbacks, logs, message) ==
    DisplayMessage(callbacks, logs, message, "tool_call", "bold cyan",
                   "Tool Call", "green")

\* a faulty variant: logs the message as it was passed, not as it was sanitized
display_error_logging_raw(callbacks, logs, message) ==
    IF Blank(message) THEN Effect(<<>>, <<>>, logs, None)
    ELSE LET msg == _clean_display_content(message, DefaultMaxLength)
         IN  Effect(Invoke(callbacks, "error", [message |-> msg]),
                    <<TextPanel(msg, "bold red", "Error", "red")>>,
                    Append(logs, message), None)

\* a faulty variant: renders the error and does not log it
display_error_not_logging(callbacks, logs, message) ==
    DisplayMessage(callbacks, logs, message, "error", "bold red", "Error", "red")

display_error(callbacks, logs, message) ==
    IF Blank(message) THEN Effect(<<>>, <<>>, logs, None)
    ELSE LET msg == _clean_display_content(message, DefaultMaxLength)
         IN  Effect(Invoke(callbacks, "error", [message |-> msg]),
                    <<TextPanel(msg, "bold red", "Error", "red")>>,
                    Append(logs, msg), None)

\* A message of display_interaction is a str or a list of parts; a part is
\* [type |-> ..., text |-> ...].
\* next((item["text"] for item in message if item["type"] == "text"), "")
TextContent(parts) ==
    LET texts == SelectSeq(parts, LAMBDA item : item.type = "text")
    IN  IF texts = <<>> THEN <<>> ELSE texts[1].text

\* f"{t:.1f}s", t a whole number of seconds below ten
Seconds(t) == <<ToString(t), ".", "0", "s">>

\* bool(generation_time), an Optional number
TimeTruthy(generation_time) == generation_time # None /\ Get(generation_time) # 0

display_interaction(callbacks, logs, message, response, markdown, generation_time) ==
    LET text_content == IF message.is_list THEN TextContent(message.parts)
                        ELSE message.str
        msg == _clean_display_content(text_content, DefaultMaxLength)
        rsp == _clean_display_content(response, DefaultMaxLength)
        note == IF TimeTruthy(generation_time)
                THEN <<[panel |-> FALSE, body |-> "Text",
                        text |-> <<"Response generated in ">>
                                     \o Seconds(Get(generation_time)),
                        style |-> "dim", title |-> "", border_style |-> ""]>>
                ELSE <<>>
        panels == IF markdown
                  THEN <<MarkdownPanel(msg, "Message", "cyan"),
                         MarkdownPanel(rsp, "Response", "cyan")>>
                  ELSE <<TextPanel(msg, "bold green", "Message", "cyan"),
                         TextPanel(rsp, "bold blue", "Response", "cyan")>>
    IN  Effect(Invoke(callbacks, "interaction",
                      [message |-> msg, response |-> rsp, markdown |-> markdown,
                       generation_time |-> generation_time]),
               note \o panels, logs, None)

\* display_generating, elapsed being time.time() - start_time
display_generating(callbacks, logs, c, start_time, elapsed) ==
    IF Blank(c)
    THEN Effect(<<>>, <<>>, logs,
                Some([panel |-> TRUE, body |-> "str", text |-> <<>>, style |-> "",
                      title |-> <<>>, border_style |-> "green"]))
    ELSE LET elapsed_str == IF start_time # None THEN <<" ">> \o Seconds(elapsed)
                            ELSE <<>>
             cleaned == _clean_display_content(c, DefaultMaxLength)
         IN  Effect(Invoke(callbacks, "generating",
                           [content |-> cleaned,
                            elapsed_time |-> IF elapsed_str # <<>>
                                             THEN Some(Strip(elapsed_str)) ELSE None]),
                    <<>>, logs,
                    Some(MarkdownPanel(cleaned, <<"Generating...">> \o elapsed_str,
                                       "green")))

\* the messages passed: empty, blank, padded, one whose every line holds the
\* base64 marker
Messages == {<<>>, <<" ">>, <<" ", "h", "i">>, Base64}
InteractionMessages ==
    {[is_list |-> FALSE, str |-> <<" ", "h", "i">>, parts |-> <<>>],
     [is_list |-> TRUE, str |-> <<>>,
      parts |-> <<[type |-> "image", text |-> Base64],
                  [type |-> "text", text |-> <<"h", "i">>]>>]}
\* the (markdown, generation_time) pairs and the (content, start_time) pairs
\* passed
InteractionOptions == {<<TRUE, None>>, <<FALSE, Some(2)>>, <<FALSE, Some(0)>>}
GeneratingArgs == {<<<<>>, None>>, <<<<" ">>, Some(1)>>, <<<<" ", "h", "i">>, None>>,
                   <<<<" ", "h", "i">>, Some(1)>>, <<Base64, Some(1)>>}

\* a call and its effect on the state
Called(c, e) ==
    /\ call' = Some(c)
    /\ invoked' = e.invoked
    /\ printed' = e.printed
    /\ returned' = e.returned
    /\ error_logs' = e.error_logs
    /\ UNCHANGED <<envelopeVars, fenceVars, sanitizerVars>>

Register ==
    /\ n_registered < MaxRegistrations
    /\ \E kind \in Kinds, handler \in Handlers :
          /\ display_callbacks' =
                 register_display_callback(display_callbacks, kind, handler)
          /\ last_registered' =
                 [k \in DOMAIN last_registered \cup {kind} |->
                     IF k = kind THEN handler ELSE last_registered[k]]
          /\ Called([op |-> "register_display_callback", kind |-> kind,
                     handler |-> handler,
                     replaced |-> IF kind \in DOMAIN last_registered
                                  THEN Some(last_registered[kind]) ELSE None],
                    Effect(<<>>, <<>>, error_logs, None))
    /\ n_registered' = n_registered + 1

DisplaySelfReflection ==
    /\ \E message \in Messages :
          Called([op |-> "display_self_reflection", message |-> message],
                 display_self_reflection(display_callbacks, error_logs, message))
    /\ UNCHANGED <<display_callbacks, last_registered, n_registered>>

DisplayInstruction ==
    /\ \E message \in Messages :
          Called([op |-> "display_instruction", message |-> message],
                 display_instruction(display_callbacks, error_logs, message))
    /\ UNCHANGED <<display_callbacks, last_registered, n_registered>>

DisplayToolCall ==
    /\ \E message \in Messages :
          Called([op |-> "display_tool_call", message |-> message],
                 display_tool_call(display_callbacks, error_logs, message))
    /\ UNCHANGED <<display_callbacks, last_registered, n_registered>>

DisplayError ==
    /\ Len(error_logs) < MaxErrorLogs
    /\ \E message \in Messages :
          Called([op |-> "display_error", message |-> message],
                 display_error(display_callbacks, error_logs, message))
    /\ UNCHANGED <<display_callbacks, last_registered, n_registered>>

DisplayInteraction ==
    /\ \E message \in InteractionMessages, options \in InteractionOptions :
          Called([op |-> "display_interaction", message |-> message,
                  markdown |-> options[1], generation_time |-> options[2]],
                 display_interaction(display_callbacks, error_logs, message,
                                     <<"o", "k", Newline>>, options[1], options[2]))
    /\ UNCHANGED <<display_callbacks, last_registered, n_registered>>

\* time.time() - start_time is 3 here
DisplayGenerating ==
    /\ \E args \in GeneratingArgs :
          Called([op |-> "display_generating", message |-> args[1],
                  start_time |-> args[2]],
                 display_generating(display_callbacks, error_logs, args[1], args[2], 3))
    /\ UNCHANGED <<display_callbacks, last_registered, n_registered>>

Next ==
    \/ Register
    \/ DisplaySelfReflection
    \/ DisplayInstruction
    \/ DisplayToolCall
    \/ DisplayError
    \/ DisplayInteraction
    \/ DisplayGenerating

Spec == Init /\ [][Next]_vars

\* the call that led to the next state, and the four functions that display
\* one message
Op == Get(call').op
Arg == Get(call')
MessageDisplays == {"display_self_reflection", "display_instruction",
                    "display_tool_call", "display_error"}
Sanitized(message) == _clean_display_content(message, DefaultMaxLength)

C6_NothingWhenSanitizedEmpty ==
    [][(Op \in MessageDisplays) /\ Sanitized(Arg.message) = <<>>
       => invoked' = <<>> /\ printed' = <<>> /\ error_logs' = error_logs]_vars

\* C7: the registry maps each kind to the handler of the latest
\* register_display_callback call for that kind and holds no other kind; a
\* kind once registered stays, a registration leaves the other kinds' entries
\* as they were, and no display function changes the registry.
C7_RegistryLastWriteWins ==
    /\ [](/\ DOMAIN display_callbacks = DOMAIN last_registered
          /\ \A k \in DOMAIN last_registered :
                 display_callbacks[k] = last_registered[k])
    /\ [][/\ DOMAIN display_callbacks \subseteq DOMAIN display_callbacks'
          /\ Op = "register_display_callback" =>
                 /\ Arg.kind \in DOMAIN display_callbacks'
                 /\ display_callbacks'[Arg.kind] = Arg.handler
                 /\ \A k \in DOMAIN display_callbacks' \ {Arg.kind} :
                        /\ k \in DOMAIN display_callbacks
                        /\ display_callbacks'[k] = display_callbacks[k]
          /\ Op # "register_display_callback" =>
                 display_callbacks' = display_callbacks]_vars

\* h2 was registered under "error", where h1 was, and the registry holds h2
C7_Witness ==
    /\ call # None
    /\ Get(call).op = "register_display_callback"
    /\ Get(call).kind = "error"
    /\ Get(call).handler = "h2"
    /\ Get(call).replaced = Some("h1")
    /\ DOMAIN display_callbacks = {"error"}
    /\ display_callbacks["error"] = "h2"

====
